---- MODULE Spec2Model ----
(***************************************************************************)
(* A model of the raster acquisition-and-compositing pipeline of           *)
(* clustering_Zimmerman.py: the pickle-backed result cache (cached), the   *)
(* granule link resolver (get_earthaccess_links), the quality mask         *)
(* (compute_quality_mask), the granule compositor (compute_reflectance_da) *)
(* and the mosaic/temporal reducer (merge_and_composite_arrays).           *)
(***************************************************************************)
EXTENDS Integers, Sequences, FiniteSets, TLC

VARIABLES
    store,      \* the jars directory: path -> file (exists, bytes)
    jars_dir,   \* TRUE once os.makedirs has created the jars directory
    recent,     \* history: path -> result of the latest computation run under it
    last,       \* history: the latest call of a cached function and its outcome
    results,    \* the search results: a sequence of granules
    file_df,    \* the table returned by get_earthaccess_links
    fmask_da,   \* the Fmask raster given to compute_quality_mask
    mask_bits,  \* the bit positions given to compute_quality_mask
    cloud_mask, \* the grid returned by compute_quality_mask
    reflectance_da_df,  \* the table returned by compute_reflectance_da
    reflectance_da,     \* the composite returned by merge_and_composite_arrays
    opened,     \* history: the open_dataarray calls of compute_reflectance_da
    pipeline,   \* the run of the notebook: its number, its next stage, its history
    procs       \* the processes that call a cached function at the same time

cacheVars == <<store, jars_dir, recent, last>>

linkVars == <<results, file_df>>

maskVars == <<fmask_da, mask_bits, cloud_mask>>

compositeVars == <<reflectance_da_df, reflectance_da>>

runVars == <<opened, pipeline, procs>>

vars ==
    <<store, jars_dir, recent, last, results, file_df,
      fmask_da, mask_bits, cloud_mask, reflectance_da_df, reflectance_da,
      opened, pipeline, procs>>

(***************************************************************************)
(* Bounds of the model.                                                    *)
(***************************************************************************)
\* results a wrapped computation may return are 1..MaxResult
MaxResult == 2
\* a search returns at most MaxGranules granules
MaxGranules == 2
\* the compositor is given at most MaxScenes granules
MaxScenes == 3
\* the notebook is run at most MaxRuns times
MaxRuns == 2

(***************************************************************************)
(* Result-Cache: cached(func_key, override)(compute_function)              *)
(***************************************************************************)
RECURSIVE StrJoin(_, _)
\* str.join: the parts separated by sep
StrJoin(sep, parts) ==
    IF Len(parts) = 0 THEN ""
    ELSE IF Len(parts) = 1 THEN parts[1]
    ELSE parts[1] \o sep \o StrJoin(sep, Tail(parts))

\* et.io.HOME and et.io.DATA_NAME: the earthpy data directory
HOME == "~"
DATA_NAME == "earth-analytics/data"

\* os.path.join of relative parts
OsPathJoin(parts) == StrJoin("/", parts)

\* keyword arguments of a call: a function from keyword names to values
NoKwargs == [k \in {} |-> ""]
Kw(name, value) == [k \in {name} |-> value]

\* a cache that ignores the per-call cache_key
EffectiveKey_NoDiscriminator(func_key, kwargs) == func_key

\* the key of a call: func_key, or func_key and the call's cache_key joined by "_"
EffectiveKey(func_key, kwargs) ==
    IF "cache_key" \in DOMAIN kwargs
    THEN StrJoin("_", <<func_key, kwargs["cache_key"]>>)
    ELSE func_key

\* the pickle file of a key
CachePath(key) == OsPathJoin(<<HOME, DATA_NAME, "jars", key \o ".pickle">>)

\* the decorated functions and the calls made of them: the three cached stages
\* of the notebook as they are called, and the calls that share a pickle file
\* with another stage
CallSites ==
    { <<"wbd_08", Kw("cache_key", "hu12")>>,
      <<"wbd_08", NoKwargs>>,
      <<"delta_reflectance_da_df", NoKwargs>>,
      <<"delta_reflectance_da", NoKwargs>>,
      <<"delta_reflectance_da", Kw("cache_key", "df")>> }

Paths == { CachePath(EffectiveKey(c[1], c[2])) : c \in CallSites }

Results == 1..MaxResult

\* a pickler that loses the value it is given
Dumps_LosesValue(r) == <<"PROTO", 1, "STOP">>

\* pickle.dump: the byte stream of a picklable result, closed by the STOP opcode
Dumps(r) == <<"PROTO", r, "STOP">>

\* pickle.load: the value of a complete stream; a truncated stream is an error
Loads(bytes) ==
    IF Len(bytes) = 3 /\ bytes[1] = "PROTO" /\ bytes[3] = "STOP"
    THEN [ok |-> TRUE, value |-> bytes[2]]
    ELSE [ok |-> FALSE, value |-> 0]

\* what pickle.dump leaves in the file opened 'wb' when the result cannot be
\* pickled: the file is truncated and at most the header is written
PartialDumps == { <<>>, <<"PROTO">> }

NoFile == [exists |-> FALSE, bytes |-> <<>>]
File(bytes) == [exists |-> TRUE, bytes |-> bytes]

\* what running compute_function(*args, **kwargs) does: it returns a picklable
\* result, returns a result that cannot be pickled, or raises
ComputeOutcomes ==
    [kind : {"ok"}, value : Results]
        \cup { [kind |-> "unpicklable", value |-> 0],
               [kind |-> "raise", value |-> 0] }

NoRecent == [kind |-> "none", value |-> 0]

NoCall ==
    [called |-> FALSE, func_key |-> "", override |-> FALSE, kwargs |-> NoKwargs,
     path |-> "", pre |-> NoFile, executed |-> 0,
     computed |-> NoRecent, outcome |-> "none", value |-> 0]

\* a cache that opens the pickle file for writing before it runs the
\* computation: a computation that raises leaves the file truncated
ComputeBranch_OpensFirst(outcomes, func_key, override, kwargs, path) ==
    \E out \in outcomes :
    /\ jars_dir' = TRUE
    /\ store' = [store EXCEPT ![path] =
                    IF out.kind = "ok" THEN File(Dumps(out.value)) ELSE File(<<>>)]
    /\ recent' = IF out.kind = "raise" THEN recent
                 ELSE [recent EXCEPT ![path] = out]
    /\ last' = [called |-> TRUE, func_key |-> func_key, override |-> override,
                kwargs |-> kwargs, path |-> path, pre |-> store[path],
                executed |-> 1, computed |-> out,
                outcome |-> IF out.kind = "ok" THEN "return" ELSE "raise",
                value |-> out.value]

\* the branch of compute_and_cache that runs the computation and pickles it;
\* outcomes is what running the computation on the arguments of the call can do
ComputeBranch(outcomes, func_key, override, kwargs, path) ==
    \E out \in outcomes :
    /\ jars_dir' = TRUE
    /\ \/ /\ out.kind = "raise"
          /\ UNCHANGED <<store, recent>>
          /\ last' = [called |-> TRUE, func_key |-> func_key, override |-> override,
                      kwargs |-> kwargs, path |-> path, pre |-> store[path],
                      executed |-> 1, computed |-> out,
                      outcome |-> "raise", value |-> 0]
       \/ /\ out.kind = "ok"
          /\ store' = [store EXCEPT ![path] = File(Dumps(out.value))]
          /\ recent' = [recent EXCEPT ![path] = out]
          /\ last' = [called |-> TRUE, func_key |-> func_key, override |-> override,
                      kwargs |-> kwargs, path |-> path, pre |-> store[path],
                      executed |-> 1, computed |-> out,
                      outcome |-> "return", value |-> out.value]
       \/ /\ out.kind = "unpicklable"
          /\ \E part \in PartialDumps :
                store' = [store EXCEPT ![path] = File(part)]
          /\ recent' = [recent EXCEPT ![path] = out]
          /\ last' = [called |-> TRUE, func_key |-> func_key, override |-> override,
                      kwargs |-> kwargs, path |-> path, pre |-> store[path],
                      executed |-> 1, computed |-> out,
                      outcome |-> "raise", value |-> 0]

\* a cache that recomputes when the stored result does not unpickle
LoadBranch_FallsBack(func_key, override, kwargs, path) ==
    LET loaded == Loads(store[path].bytes) IN
    IF loaded.ok
    THEN /\ UNCHANGED <<store, jars_dir, recent>>
         /\ last' = [called |-> TRUE, func_key |-> func_key, override |-> override,
                     kwargs |-> kwargs, path |-> path, pre |-> store[path],
                     executed |-> 0, computed |-> NoRecent,
                     outcome |-> "return", value |-> loaded.value]
    ELSE ComputeBranch(ComputeOutcomes, func_key, override, kwargs, path)

\* the branch of compute_and_cache that unpickles the stored result
LoadBranch(func_key, override, kwargs, path) ==
    LET loaded == Loads(store[path].bytes) IN
    /\ UNCHANGED <<store, jars_dir, recent>>
    /\ last' = [called |-> TRUE, func_key |-> func_key, override |-> override,
                kwargs |-> kwargs, path |-> path, pre |-> store[path],
                executed |-> 0, computed |-> NoRecent,
                outcome |-> IF loaded.ok THEN "return" ELSE "raise",
                value |-> loaded.value]

\* a cache that recomputes on every call
MustCompute_Always(exists, override) == TRUE

\* a cache that never recomputes a stored result
MustCompute_IgnoreOverride(exists, override) == ~exists

\* the condition under which compute_and_cache computes
MustCompute(exists, override) == ~exists \/ override

\* one call of a function decorated with cached(func_key, override)
compute_and_cache(outcomes, func_key, override, kwargs) ==
    LET key == EffectiveKey(func_key, kwargs)
        path == CachePath(key)
    IN  IF MustCompute(store[path].exists, override)
        THEN ComputeBranch(outcomes, func_key, override, kwargs, path)
        ELSE LoadBranch(func_key, override, kwargs, path)

\* the cache before any call: no jars directory, no pickle file
CacheInit ==
    /\ store = [p \in Paths |-> NoFile]
    /\ jars_dir = FALSE
    /\ recent = [p \in Paths |-> NoRecent]
    /\ last = NoCall

(***************************************************************************)
(* Granule-Link-Resolver: get_earthaccess_links(results)                   *)
(***************************************************************************)
\* a file name is the sequence of its characters
Digits == {"0", "1", "2", "3", "4", "5", "6", "7", "8", "9"}
Letters ==
    {"A", "B", "C", "D", "E", "F", "G", "H", "I", "J", "K", "L", "M",
     "N", "O", "P", "Q", "R", "S", "T", "U", "V", "W", "X", "Y", "Z",
     "a", "b", "c", "d", "e", "f", "g", "h", "i", "j", "k", "l", "m",
     "n", "o", "p", "q", "r", "s", "t", "u", "v", "w", "x", "y", "z"}
\* the classes \w, \d and [A-Za-z0-9] of url_re
WordChars == Letters \cup Digits \cup {"_"}
AlnumChars == Letters \cup Digits

\* the character at position i, "" past the end of the name
At(s, i) == IF i \in 1..Len(s) THEN s[i] ELSE ""

RECURSIVE SpanEnd(_, _, _)
\* the position after the longest run of characters of class that starts at i
SpanEnd(s, i, class) ==
    IF i <= Len(s) /\ s[i] \in class THEN SpanEnd(s, i + 1, class) ELSE i

\* the literal lit stands at position i
Lit(s, i, lit) == \A k \in 1..Len(lit) : At(s, i + k - 1) = lit[k]

NoMatch == [matched |-> FALSE, tile_id |-> <<>>, band |-> <<>>]

\* the closing \.tif of url_re: nothing is required after it
TifSuffix(s, i) == Lit(s, i, <<".", "t", "i", "f">>)

\* url_re matched at position i:
\* \.(?P<tile_id>\w+)\.\d+T\d+\.v\d\.\d\.(?P<band>[A-Za-z0-9]+)\.tif
MatchAt(s, i) ==
    LET a == i + 1
        b == SpanEnd(s, a, WordChars)
        c == b + 1
        d == SpanEnd(s, c, Digits)
        e == d + 1
        f == SpanEnd(s, e, Digits)
        g == f + 6
        h == SpanEnd(s, g, AlnumChars)
    IN  IF /\ At(s, i) = "."
           /\ b > a /\ At(s, b) = "."
           /\ d > c /\ At(s, d) = "T"
           /\ f > e /\ Lit(s, f, <<".", "v">>)
           /\ At(s, f + 2) \in Digits /\ At(s, f + 3) = "."
           /\ At(s, f + 4) \in Digits /\ At(s, f + 5) = "."
           /\ h > g /\ TifSuffix(s, h)
        THEN [matched |-> TRUE, tile_id |-> SubSeq(s, a, b - 1),
              band |-> SubSeq(s, g, h - 1)]
        ELSE NoMatch

\* url_re.search: the leftmost match, or None
Search(s) ==
    LET starts == { i \in 1..Len(s) : MatchAt(s, i).matched } IN
    IF starts = {} THEN NoMatch
    ELSE MatchAt(s, CHOOSE i \in starts : \A j \in starts : i <= j)

\* pd.to_datetime of a BeginningDateTime: the day of the year 2024
ToDatetime(text) ==
    CASE text = "2024-06-28T16:39:01.000Z" -> 180
      [] text = "2024-07-14T16:39:05.000Z" -> 196
      [] text = "2024-07-30T16:39:12.000Z" -> 212
      [] OTHER -> 0

\* Polygon([(point['Longitude'], point['Latitude']) for point in points])
Polygon(points) ==
    [k \in 1..Len(points) |-> <<points[k].Longitude, points[k].Latitude>>]

\* the metadata fields the resolver reads from granule['umm']
UmmFields == {"GranuleUR", "TemporalExtent", "SpatialExtent"}

RECURSIVE FileRows(_, _, _)
\* the one-row frames appended for the files of one granule, each with index 0
FileRows(files, datetime, geometry) ==
    IF files = <<>> THEN <<>>
    ELSE LET file == Head(files)
             match == Search(file.full_name)
         IN  (IF match.matched
              THEN << [index |-> 0, datetime |-> datetime,
                       tile_id |-> match.tile_id, band |-> match.band,
                       url |-> file, geometry |-> geometry] >>
              ELSE <<>>)
             \o FileRows(Tail(files), datetime, geometry)

RECURSIVE LinkRows(_)
\* link_rows after the loop over the granules
LinkRows(granules) ==
    IF granules = <<>> THEN <<>>
    ELSE LET info_dict == Head(granules).umm IN
         FileRows(Head(granules).files,
                  ToDatetime(info_dict["TemporalExtent"]),
                  Polygon(info_dict["SpatialExtent"]))
             \o LinkRows(Tail(granules))

\* a table that keeps the index of the frames it was built from
ResetIndex_Kept(rows) == rows

\* reset_index(drop=True): the rows numbered 0, 1, 2, ...
ResetIndex(rows) == [k \in 1..Len(rows) |-> [rows[k] EXCEPT !.index = k - 1]]

NoTable == [state |-> "none", rows |-> <<>>]

\* get_earthaccess_links: a KeyError on a granule that lacks a metadata field,
\* a ValueError from pd.concat when no file matched, the link table otherwise
get_earthaccess_links(search_results) ==
    IF \E g \in 1..Len(search_results) :
            ~(UmmFields \subseteq DOMAIN search_results[g].umm)
    THEN [state |-> "error", rows |-> <<>>]
    ELSE LET link_rows == LinkRows(search_results) IN
         IF link_rows = <<>>
         THEN [state |-> "error", rows |-> <<>>]
         ELSE [state |-> "ok", rows |-> ResetIndex(link_rows)]

(***************************************************************************)
(* Search results the resolver is applied to                               *)
(***************************************************************************)
\* the characters of the parts of the names
C_HLSS30 == <<"H", "L", "S", ".", "S", "3", "0">>
C_HLSL30 == <<"H", "L", "S", ".", "L", "3", "0">>
C_T15RYN == <<"T", "1", "5", "R", "Y", "N">>
C_T16RBT == <<"T", "1", "6", "R", "B", "T">>
C_TS1 == <<"2", "0", "2", "4", "1", "8", "0", "T", "1", "6", "3", "9", "0", "1">>
C_TS2 == <<"2", "0", "2", "4", "1", "9", "6", "T", "1", "6", "3", "9", "0", "5">>
C_V20 == <<"2", ".", "0">>
C_V15 == <<"1", ".", "5">>
C_B04 == <<"B", "0", "4">>
C_B05 == <<"B", "0", "5">>
C_FMASK == <<"F", "m", "a", "s", "k">>
C_B8A == <<"B", "8", "A">>
Dot == <<".">>
NamePrefixes == { C_HLSS30, C_HLSL30 }
TileIds == { C_T15RYN, C_T16RBT }
Timestamps == { C_TS1, C_TS2 }
Versions == { C_V20, C_V15 }
BandCodes == { C_B04, C_B05, C_FMASK }
TifExt == <<"t", "i", "f">>

\* <anything>.<tile_id>.<timestamp>.v<version>.<band>.tif
GrammarName(prefix, tile, timestamp, version, band) ==
    prefix \o Dot \o tile \o Dot \o timestamp \o Dot \o <<"v">> \o version
        \o Dot \o band \o Dot \o TifExt

NameParts == NamePrefixes \X TileIds \X Timestamps \X Versions \X BandCodes

GrammarNames == { GrammarName(n[1], n[2], n[3], n[4], n[5]) : n \in NameParts }

\* the names of files that are not band rasters: the browse image and the
\* metadata of a granule, a name without version segment, and the sidecar
\* file of a band raster
BrowseNames ==
    { n[1] \o Dot \o n[2] \o Dot \o n[3] \o Dot \o <<"v">> \o n[4]
        \o Dot \o <<"j", "p", "g">> : n \in NameParts }
MetadataNames ==
    { n[1] \o Dot \o n[2] \o Dot \o n[3] \o Dot \o <<"v">> \o n[4]
        \o Dot \o <<"c", "m", "r">> \o Dot \o <<"x", "m", "l">> : n \in NameParts }
NoVersionNames ==
    { n[1] \o Dot \o n[2] \o Dot \o n[3] \o Dot \o n[5] \o Dot \o TifExt
        : n \in NameParts }
SidecarNames ==
    { GrammarName(n[1], n[2], n[3], n[4], n[5])
        \o Dot \o <<"a", "u", "x">> \o Dot \o <<"x", "m", "l">> : n \in NameParts }

FileNames ==
    GrammarNames \cup BrowseNames \cup MetadataNames \cup NoVersionNames
        \cup SidecarNames

\* the name given as the example of the grammar
ExampleName == GrammarName(C_HLSS30, C_T15RYN, C_TS1, C_V20, C_B04)

NoRaster == <<>>
\* an opened file of granule g: its place among the files, its name, its raster
FileRef(g, i, name, data) ==
    [handle |-> <<g, i>>, full_name |-> name, data |-> data]

FootprintA ==
    << [Longitude |-> -90, Latitude |-> 29], [Longitude |-> -89, Latitude |-> 29],
       [Longitude |-> -89, Latitude |-> 30], [Longitude |-> -90, Latitude |-> 29] >>
FootprintB ==
    << [Longitude |-> -91, Latitude |-> 29], [Longitude |-> -90, Latitude |-> 30],
       [Longitude |-> -91, Latitude |-> 30], [Longitude |-> -91, Latitude |-> 29] >>

\* granule['umm'] of two well-formed granules and of one without TemporalExtent
UmmChoices ==
    { [GranuleUR |-> "HLS.L30.T15RYN.2024180T163901.v2.0",
       TemporalExtent |-> "2024-06-28T16:39:01.000Z",
       SpatialExtent |-> FootprintA],
      [GranuleUR |-> "HLS.L30.T16RBT.2024196T163905.v2.0",
       TemporalExtent |-> "2024-07-14T16:39:05.000Z",
       SpatialExtent |-> FootprintB],
      [GranuleUR |-> "HLS.L30.T16RBT.2024196T163905.v2.0",
       SpatialExtent |-> FootprintB] }

\* the file names of a granule: any one name, or one of a few lists of names
FileLists ==
    { <<>>,
      << GrammarName(C_HLSL30, C_T15RYN, C_TS1, C_V20, C_FMASK),
         GrammarName(C_HLSL30, C_T15RYN, C_TS1, C_V20, C_B04) >>,
      << GrammarName(C_HLSL30, C_T15RYN, C_TS1, C_V20, C_B04),
         GrammarName(C_HLSL30, C_T15RYN, C_TS1, C_V20, C_B04) >>,
      << GrammarName(C_HLSL30, C_T15RYN, C_TS1, C_V20, C_B04),
         GrammarName(C_HLSL30, C_T15RYN, C_TS1, C_V20, C_B04)
            \o Dot \o <<"a", "u", "x">> \o Dot \o <<"x", "m", "l">> >>,
      << C_HLSL30 \o Dot \o C_T15RYN \o Dot \o C_TS1 \o Dot \o <<"v">> \o C_V20
            \o Dot \o <<"j", "p", "g">>,
         GrammarName(C_HLSL30, C_T16RBT, C_TS2, C_V20, C_B05),
         C_HLSL30 \o Dot \o C_T16RBT \o Dot \o C_TS2 \o Dot \o C_B05
            \o Dot \o TifExt >> }

Granule(g, umm, names) ==
    [umm |-> umm,
     files |-> [i \in 1..Len(names) |-> FileRef(g, i, names[i], NoRaster)]]

RECURSIVE GranulesUpTo(_)
\* the search results of up to n granules, each with one of the lists of names
GranulesUpTo(n) ==
    IF n = 0 THEN { <<>> }
    ELSE LET shorter == GranulesUpTo(n - 1) IN
         shorter \cup
            { Append(found, Granule(n, umm, names)) :
                found \in { r \in shorter : Len(r) = n - 1 },
                umm \in UmmChoices, names \in FileLists }

\* one granule with one file of any name, or up to MaxGranules granules
SearchResults ==
    { << Granule(1, umm, <<name>>) >> : umm \in UmmChoices, name \in FileNames }
        \cup GranulesUpTo(MaxGranules)

(***************************************************************************)
(* Quality-Mask-Builder: compute_quality_mask(da, mask_bits)               *)
(***************************************************************************)
\* a raster is its shape and its values in row-major order
Raster(shape, values) == [shape |-> shape, values |-> values]

RECURSIVE Pow2(_)
Pow2(n) == IF n = 0 THEN 1 ELSE 2 * Pow2(n - 1)

\* the width of np.uint8
BitsPerByte == 8

\* da.astype(np.uint8)
AsUint8(v) == v % Pow2(BitsPerByte)

\* bits unpacked most significant bit first
UnpackBits_Big(values) ==
    [n \in 1..(BitsPerByte * Len(values)) |->
        (values[((n - 1) \div BitsPerByte) + 1]
            \div Pow2(BitsPerByte - 1 - ((n - 1) % BitsPerByte))) % 2]

\* np.unpackbits(..., bitorder='little'): the bits of every value of the
\* flattened array, least significant bit first
UnpackBits(values) ==
    [n \in 1..(BitsPerByte * Len(values)) |->
        (values[((n - 1) \div BitsPerByte) + 1]
            \div Pow2((n - 1) % BitsPerByte)) % 2]

\* .reshape(da.shape + (-1,)): bit k of pixel p
BitOf(bits, p, k) == bits[BitsPerByte * (p - 1) + k + 1]

RECURSIVE Prod(_)
\* np.prod along the last axis
Prod(factors) ==
    IF factors = <<>> THEN 1 ELSE Head(factors) * Prod(Tail(factors))

\* mask_bits=[1, 2, 3]
DefaultMaskBits == <<1, 2, 3>>

\* compute_quality_mask: 1 where none of the selected bits is set, 0 elsewhere
compute_quality_mask(da, bit_list) ==
    LET bits == UnpackBits([p \in DOMAIN da.values |-> AsUint8(da.values[p])])
    IN  Raster(da.shape,
               [p \in DOMAIN da.values |->
                   Prod([j \in DOMAIN bit_list |->
                            IF BitOf(bits, p, bit_list[j]) = 0 THEN 1 ELSE 0])])

NoMask == [state |-> "none", mask |-> Raster(<<0, 0>>, <<>>)]

RECURSIVE SortedSeq(_)
\* the list of a set of bit positions, ascending
SortedSeq(set) ==
    IF set = {} THEN <<>>
    ELSE LET least == CHOOSE x \in set : \A y \in set : x <= y
         IN  <<least>> \o SortedSeq(set \ {least})

\* the rasters the mask is computed of: every value of one pixel, and grids
MaskRasters ==
    { Raster(<<1, 1>>, <<v>>) : v \in 0..(Pow2(BitsPerByte) - 1) }
MaskGrids ==
    { Raster(<<2, 2>>, <<10, 1, 0, 255>>), Raster(<<1, 3>>, <<64, 14, 16>>),
      Raster(<<3, 1>>, <<2, 4, 8>>) }
MaskBitLists == { SortedSeq(set) : set \in SUBSET (0..(BitsPerByte - 1)) }

(***************************************************************************)
(* Band-Raster-Loader and Granule-Compositor: compute_reflectance_da       *)
(***************************************************************************)
\* A raster is a strip of cells: x0 is the coordinate of its first cell, shape
\* is (1, n). A raster read unmasked holds integers. A raster read masked holds
\* floats, each a record: nan, or the number v / UnitsPerOne.
Strip(x0, values) == [x0 |-> x0, shape |-> <<1, Len(values)>>, values |-> values]

\* scale=0.0001 is 1 / ScaleDen
ScaleDen == 10000
\* the floats of the model are multiples of 1 / (2 * ScaleDen), which holds the
\* scaled counts and the mean of two of them
UnitsPerOne == 2 * ScaleDen

NaN == [nan |-> TRUE, v |-> 0]
Float(v) == [nan |-> FALSE, v |-> v]

\* the scale factors of open_dataarray: scale=1 and scale=0.0001
ScaleOne == [num |-> 1, den |-> 1]
ScaleReflectance == [num |-> 1, den |-> ScaleDen]

\* the float x times scale
ScaleBy(x, scale) ==
    IF x.nan THEN NaN ELSE Float((x.v * scale.num) \div scale.den)

\* rxr.open_rasterio(url, masked=masked).squeeze() * scale: read masked, the
\* nodata value becomes nan and the counts become floats; read unmasked with
\* scale 1, the integers stay as they are
OpenRasterio(url, scale, masked) ==
    IF masked
    THEN Strip(url.data.x0,
               [p \in DOMAIN url.data.values |->
                   IF url.data.values[p] = url.data.nodata THEN NaN
                   ELSE ScaleBy(Float(url.data.values[p] * UnitsPerOne), scale)])
    ELSE Strip(url.data.x0,
               [p \in DOMAIN url.data.values |->
                   (url.data.values[p] * scale.num) \div scale.den])

\* boundary_gdf.to_crs(da.rio.crs).total_bounds: the cells of the raster grid
\* the boundary spans
TotalBounds == [lo |-> 1, hi |-> 2]

\* da.rio.clip_box(*bounds): the cells of the raster within the bounds
ClipBox(da, bounds) ==
    LET first == IF da.x0 > bounds.lo THEN da.x0 ELSE bounds.lo
        end == da.x0 + Len(da.values) - 1
        final == IF end < bounds.hi THEN end ELSE bounds.hi
    IN  Strip(first, SubSeq(da.values, first - da.x0 + 1, final - da.x0 + 1))

\* open_dataarray(url, boundary_proj_gdf, scale, masked)
open_dataarray(url, scale, masked) ==
    ClipBox(OpenRasterio(url, scale, masked), TotalBounds)

\* a mask that is not applied
Where_Unmasked(da, mask) == da

\* band_cropped.where(cloud_mask): nan where the mask is 0
Where(da, mask) ==
    Strip(da.x0, [p \in DOMAIN da.values |->
                     IF mask.values[p] # 0 THEN da.values[p] ELSE NaN])

\* the order of the characters of the names
AsciiOrder ==
    << ".", "0", "1", "2", "3", "4", "5", "6", "7", "8", "9",
       "A", "B", "C", "D", "E", "F", "G", "H", "I", "J", "K", "L", "M",
       "N", "O", "P", "Q", "R", "S", "T", "U", "V", "W", "X", "Y", "Z", "_",
       "a", "b", "c", "d", "e", "f", "g", "h", "i", "j", "k", "l", "m",
       "n", "o", "p", "q", "r", "s", "t", "u", "v", "w", "x", "y", "z" >>
Ord(ch) == CHOOSE n \in DOMAIN AsciiOrder : AsciiOrder[n] = ch

RECURSIVE StrLess(_, _)
\* a < b for strings
StrLess(a, b) ==
    IF b = <<>> THEN FALSE
    ELSE IF a = <<>> THEN TRUE
    ELSE IF Head(a) = Head(b) THEN StrLess(Tail(a), Tail(b))
    ELSE Ord(Head(a)) < Ord(Head(b))

\* the order of the keys (datetime, tile_id) of the groups
GroupKeyLess(a, b) == a[1] < b[1] \/ (a[1] = b[1] /\ StrLess(a[2], b[2]))

RECURSIVE SortedGroupKeys(_)
\* the keys of groupby(['datetime', 'tile_id']), in the order it iterates
SortedGroupKeys(keys) ==
    IF keys = {} THEN <<>>
    ELSE LET least == CHOOSE a \in keys : \A b \in keys \ {a} : GroupKeyLess(a, b)
         IN  <<least>> \o SortedGroupKeys(keys \ {least})

\* the rows of one (datetime, tile_id) group, in the order of the table
GroupOf(rows, key) ==
    LET InGroup(row) == <<row.datetime, row.tile_id>> = key
    IN  SelectSeq(rows, InGroup)

IsFmask(row) == row.band = <<"F", "m", "a", "s", "k">>
\* row.band.startswith('B')
IsSpectral(row) == Len(row.band) >= 1 /\ row.band[1] = "B"

\* a loop body that emits the bands of a group without Fmask as they are
GranuleRows_Unmasked(granule_df) ==
    LET band_rows == SelectSeq(granule_df, IsSpectral) IN
    [ok |-> TRUE,
     rows |-> [k \in DOMAIN band_rows |->
         [index |-> band_rows[k].index, datetime |-> band_rows[k].datetime,
          tile_id |-> band_rows[k].tile_id, band |-> band_rows[k].band,
          url |-> band_rows[k].url, geometry |-> band_rows[k].geometry,
          da |-> open_dataarray(band_rows[k].url, ScaleReflectance, TRUE)]]]

\* the body of the loop for one group: the rows of its spectral bands, each
\* with its masked raster; an IndexError when the group has no Fmask row, a
\* ValueError when a band and the mask differ in shape
GranuleRows(granule_df) ==
    LET fmask_rows == SelectSeq(granule_df, IsFmask) IN
    IF fmask_rows = <<>> THEN [ok |-> FALSE, rows |-> <<>>]
    ELSE LET cloud_mask_cropped_da ==
                 open_dataarray(fmask_rows[1].url, ScaleOne, FALSE)
             mask == compute_quality_mask(cloud_mask_cropped_da, DefaultMaskBits)
             band_rows == SelectSeq(granule_df, IsSpectral)
             Cropped(row) == open_dataarray(row.url, ScaleReflectance, TRUE)
         IN  IF \E k \in DOMAIN band_rows : Cropped(band_rows[k]).shape # mask.shape
             THEN [ok |-> FALSE, rows |-> <<>>]
             ELSE [ok |-> TRUE,
                   rows |-> [k \in DOMAIN band_rows |->
                       [index |-> band_rows[k].index,
                        datetime |-> band_rows[k].datetime,
                        tile_id |-> band_rows[k].tile_id,
                        band |-> band_rows[k].band,
                        url |-> band_rows[k].url,
                        geometry |-> band_rows[k].geometry,
                        da |-> Where(Cropped(band_rows[k]), mask)]]]

RECURSIVE GranuleDaRows(_, _)
\* granule_da_rows after the loop over the groups
GranuleDaRows(rows, keys) ==
    IF keys = <<>> THEN [ok |-> TRUE, rows |-> <<>>]
    ELSE LET head == GranuleRows(GroupOf(rows, Head(keys)))
             rest == GranuleDaRows(rows, Tail(keys))
         IN  IF head.ok /\ rest.ok
             THEN [ok |-> TRUE, rows |-> head.rows \o rest.rows]
             ELSE [ok |-> FALSE, rows |-> <<>>]

\* the value of boundary_proj_gdf that compute_reflectance_da passes to
\* open_dataarray: it is set to None before the loop, and the assignment in
\* open_dataarray binds the parameter of that call only
BoundaryProjGdf(calls_before) == "None"

\* one call of open_dataarray: the file it opens, and whether it reprojects
\* the boundary (if boundary_proj_gdf is None)
OpenCall(row, boundary_proj_gdf) ==
    [datetime |-> row.datetime, tile_id |-> row.tile_id, band |-> row.band,
     handle |-> row.url.handle, to_crs |-> boundary_proj_gdf = "None"]

RECURSIVE BandOpenCalls(_, _, _)
\* the open_dataarray calls for the spectral bands of a group, up to the band
\* whose shape differs from that of the mask
BandOpenCalls(band_rows, mask, calls_before) ==
    IF band_rows = <<>> THEN <<>>
    ELSE << OpenCall(Head(band_rows), BoundaryProjGdf(calls_before)) >>
            \o (IF open_dataarray(Head(band_rows).url, ScaleReflectance, TRUE).shape
                      # mask.shape
                THEN <<>>
                ELSE BandOpenCalls(Tail(band_rows), mask, calls_before + 1))

\* the open_dataarray calls of the loop body for one group: none when the
\* group has no Fmask row, the Fmask and then the bands otherwise
GranuleOpenCalls(granule_df, calls_before) ==
    LET fmask_rows == SelectSeq(granule_df, IsFmask) IN
    IF fmask_rows = <<>> THEN <<>>
    ELSE LET mask == compute_quality_mask(
                         open_dataarray(fmask_rows[1].url, ScaleOne, FALSE),
                         DefaultMaskBits)
         IN  << OpenCall(fmask_rows[1], BoundaryProjGdf(calls_before)) >>
                \o BandOpenCalls(SelectSeq(granule_df, IsSpectral), mask,
                                 calls_before + 1)

RECURSIVE OpenCalls(_, _, _)
\* the open_dataarray calls of the loop over the groups, which ends at the
\* first group that fails
OpenCalls(rows, keys, calls_before) ==
    IF keys = <<>> THEN <<>>
    ELSE LET granule_df == GroupOf(rows, Head(keys))
             calls == GranuleOpenCalls(granule_df, calls_before)
         IN  calls \o (IF GranuleRows(granule_df).ok
                       THEN OpenCalls(rows, Tail(keys), calls_before + Len(calls))
                       ELSE <<>>)

\* the open_dataarray calls of compute_reflectance_da(search_results)
OpenCallsOf(search_results) ==
    LET links == get_earthaccess_links(search_results) IN
    IF links.state # "ok" THEN <<>>
    ELSE OpenCalls(links.rows,
                   SortedGroupKeys({ <<links.rows[k].datetime, links.rows[k].tile_id>>
                                        : k \in DOMAIN links.rows }), 0)

NoBandTable == [state |-> "none", rows |-> <<>>]

\* compute_reflectance_da(search_results, boundary_gdf): the error of the link
\* resolver or of a group, a ValueError from pd.concat when no spectral band
\* was found, the table of the masked bands otherwise
compute_reflectance_da(search_results) ==
    LET links == get_earthaccess_links(search_results) IN
    IF links.state # "ok" THEN [state |-> "error", rows |-> <<>>]
    ELSE LET keys == { <<links.rows[k].datetime, links.rows[k].tile_id>>
                          : k \in DOMAIN links.rows }
             granule_da_rows == GranuleDaRows(links.rows, SortedGroupKeys(keys))
         IN  IF ~granule_da_rows.ok \/ granule_da_rows.rows = <<>>
             THEN [state |-> "error", rows |-> <<>>]
             ELSE [state |-> "ok", rows |-> granule_da_rows.rows]

(***************************************************************************)
(* Mosaic-Temporal-Reducer: merge_and_composite_arrays(granule_da_df)      *)
(***************************************************************************)
LastCell(da) == da.x0 + Len(da.values) - 1
Covers(da, x) == x \in da.x0..LastCell(da)

\* the value of cell x, nan where the raster has no cell
CellOf(da, x) == IF Covers(da, x) THEN da.values[x - da.x0 + 1] ELSE NaN

\* the cells from the first cell of any raster to the last cell of any raster
HullLo(das) ==
    CHOOSE x \in { das[k].x0 : k \in DOMAIN das } :
        \A k \in DOMAIN das : x <= das[k].x0
HullHi(das) ==
    CHOOSE x \in { LastCell(das[k]) : k \in DOMAIN das } :
        \A k \in DOMAIN das : x >= LastCell(das[k])

RECURSIVE FirstValid(_, _, _)
\* the value of the first raster of the list that has a number at cell x, and
\* the fill of the mosaic when none has
FirstValid(das, x, fill) ==
    IF das = <<>> THEN fill
    ELSE IF ~CellOf(Head(das), x).nan THEN CellOf(Head(das), x)
    ELSE FirstValid(Tail(das), x, fill)

\* the fill value of band rasters, the nodata value of -9999
NoDataValue == -9999

\* what the mosaic holds where no tile has a number: nan, zero, or the scaled
\* nodata value
MergeFills == { NaN, Float(0), ScaleBy(Float(NoDataValue * UnitsPerOne), ScaleReflectance) }

\* rxrmerge.merge_arrays(list(date_df.da))
MergeArrays(das, fill) ==
    LET lo == HullLo(das)
        hi == HullHi(das)
    IN  Strip(lo, [p \in 1..(hi - lo + 1) |-> FirstValid(das, lo + p - 1, fill)])

\* a sweep that keeps zero
WherePositive_KeepsZero(da) ==
    Strip(da.x0, [p \in DOMAIN da.values |->
                     IF ~da.values[p].nan /\ da.values[p].v >= 0
                     THEN da.values[p] ELSE NaN])

\* merged_da.where(merged_da > 0)
WherePositive(da) ==
    Strip(da.x0, [p \in DOMAIN da.values |->
                     IF ~da.values[p].nan /\ da.values[p].v > 0
                     THEN da.values[p] ELSE NaN])

RECURSIVE InsertSorted(_, _)
InsertSorted(x, sorted) ==
    IF sorted = <<>> THEN <<x>>
    ELSE IF x <= Head(sorted) THEN <<x>> \o sorted
    ELSE <<Head(sorted)>> \o InsertSorted(x, Tail(sorted))

RECURSIVE SortNumbers(_)
SortNumbers(numbers) ==
    IF numbers = <<>> THEN <<>>
    ELSE InsertSorted(Head(numbers), SortNumbers(Tail(numbers)))

RECURSIVE SumNumbers(_)
SumNumbers(numbers) ==
    IF numbers = <<>> THEN 0 ELSE Head(numbers) + SumNumbers(Tail(numbers))

\* the numbers among the floats of a pixel
Numbers(pixels) ==
    LET IsNumber(x) == ~x.nan
        valid == SelectSeq(pixels, IsNumber)
    IN  [k \in DOMAIN valid |-> valid[k].v]

\* the mean of the numbers of a pixel
NanMedian_Mean(pixels) ==
    LET numbers == Numbers(pixels) IN
    IF numbers = <<>> THEN NaN
    ELSE Float(SumNumbers(numbers) \div Len(numbers))

\* .median('datetime') of one pixel: the median of its numbers, nan when it
\* has none
NanMedian(pixels) ==
    LET sorted == SortNumbers(Numbers(pixels))
        n == Len(sorted)
    IN  IF n = 0 THEN NaN
        ELSE IF n % 2 = 1 THEN Float(sorted[(n + 1) \div 2])
        ELSE Float((sorted[n \div 2] + sorted[(n \div 2) + 1]) \div 2)

\* xr.concat(merged_das, dim='datetime').median('datetime'): the rasters are
\* aligned on the cells of any of them
MedianComposite(merged_das) ==
    LET lo == HullLo(merged_das)
        hi == HullHi(merged_das)
    IN  Strip(lo, [p \in 1..(hi - lo + 1) |->
                      NanMedian([k \in DOMAIN merged_das |->
                                    CellOf(merged_das[k], lo + p - 1)])])

DigitOrder == <<"0", "1", "2", "3", "4", "5", "6", "7", "8", "9">>
DigitValue(ch) == (CHOOSE n \in DOMAIN DigitOrder : DigitOrder[n] = ch) - 1

RECURSIVE DecimalValue(_)
DecimalValue(chars) ==
    IF chars = <<>> THEN 0
    ELSE 10 * DecimalValue(SubSeq(chars, 1, Len(chars) - 1))
            + DigitValue(chars[Len(chars)])

\* int(text): a ValueError unless the text is a string of digits
ParseInt(chars) ==
    IF chars # <<>> /\ \A k \in DOMAIN chars : chars[k] \in Digits
    THEN [ok |-> TRUE, value |-> DecimalValue(chars)]
    ELSE [ok |-> FALSE, value |-> 0]

RECURSIVE SortedStrs(_)
\* the keys of groupby('band'), in the order it iterates
SortedStrs(strs) ==
    IF strs = {} THEN <<>>
    ELSE LET least == CHOOSE a \in strs : \A b \in strs \ {a} : StrLess(a, b)
         IN  <<least>> \o SortedStrs(strs \ {least})

\* the rasters of the rows of a band and a date, in the order of the table
DasOf(rows, band, datetime) ==
    LET InDate(row) == row.band = band /\ row.datetime = datetime
        date_df == SelectSeq(rows, InDate)
    IN  [k \in DOMAIN date_df |-> date_df[k].da]

\* the loop over the dates of a band: per date the mosaic and the swept mosaic
MergedDas(rows, band, fill) ==
    LET dates == SortedSeq({ rows[k].datetime :
                                k \in { j \in DOMAIN rows : rows[j].band = band } })
    IN  [d \in DOMAIN dates |->
            LET merged_da == MergeArrays(DasOf(rows, band, dates[d]), fill)
            IN  [datetime |-> dates[d], merged |-> merged_da,
                 swept |-> WherePositive(merged_da)]]

\* the composite of one band, labelled int(band[1:]) and named 'reflectance'
BandComposite(rows, band, fill) ==
    LET merged_das == MergedDas(rows, band, fill)
        composite_da == MedianComposite([d \in DOMAIN merged_das |-> merged_das[d].swept])
        label == ParseInt(Tail(band))
    IN  [ok |-> label.ok, band |-> label.value, code |-> band,
         name |-> "reflectance", da |-> composite_da, dates |-> merged_das]

NoComposite == [state |-> "none", x0 |-> 0, bands |-> <<>>]

\* merge_and_composite_arrays(granule_da_df): the composites of the bands,
\* concatenated on the cells of any of them; a ValueError when a band code is
\* not 'B' and a number
merge_and_composite_arrays(granule_da_df, fill) ==
    LET bands == SortedStrs({ granule_da_df[k].band : k \in DOMAIN granule_da_df })
        da_list == [b \in DOMAIN bands |-> BandComposite(granule_da_df, bands[b], fill)]
        das == [b \in DOMAIN da_list |-> da_list[b].da]
    IN  IF \E b \in DOMAIN da_list : ~da_list[b].ok
        THEN [state |-> "error", x0 |-> 0, bands |-> <<>>]
        ELSE LET lo == HullLo(das)
                 hi == HullHi(das)
             IN  [state |-> "ok", x0 |-> lo,
                  bands |-> [b \in DOMAIN da_list |->
                      [band |-> da_list[b].band, code |-> da_list[b].code,
                       name |-> da_list[b].name,
                       values |-> [p \in 1..(hi - lo + 1) |->
                                      CellOf(da_list[b].da, lo + p - 1)],
                       dates |-> da_list[b].dates]]]

(***************************************************************************)
(* Granules the compositor is applied to                                   *)
(***************************************************************************)
\* the raster of a file: the first cell, the counts, the nodata value
FileRaster(x0, values, nodata) == [x0 |-> x0, values |-> values, nodata |-> nodata]

\* the files of a granule of tile T15RYN, whose cells 0..2 reach into the
\* boundary at cells 1 and 2: the Fmask and band 4
SceneT15(fmask, b04) ==
    [umm_tile |-> "T15RYN",
     files |-> << [name |-> GrammarName(C_HLSL30, C_T15RYN, C_TS1, C_V20, C_FMASK),
                   data |-> FileRaster(0, fmask, 255)],
                  [name |-> GrammarName(C_HLSL30, C_T15RYN, C_TS1, C_V20, C_B04),
                   data |-> FileRaster(0, b04, NoDataValue)] >>]

\* the files of a granule of tile T16RBT, whose cells 2..3 reach into the
\* boundary at cell 2: bands 4 and 5 and the Fmask
SceneT16(fmask, b04, b05) ==
    [umm_tile |-> "T16RBT",
     files |-> << [name |-> GrammarName(C_HLSL30, C_T16RBT, C_TS1, C_V20, C_B04),
                   data |-> FileRaster(2, b04, NoDataValue)],
                  [name |-> GrammarName(C_HLSL30, C_T16RBT, C_TS1, C_V20, C_B05),
                   data |-> FileRaster(2, b05, NoDataValue)],
                  [name |-> GrammarName(C_HLSL30, C_T16RBT, C_TS1, C_V20, C_FMASK),
                   data |-> FileRaster(2, fmask, 255)] >>]

\* clear and cloudy pixels; counts that are nodata, negative, zero, within the
\* reflectance range and above it
SceneChoices ==
    { SceneT15(<<0, 0, 0>>, <<100, 300, NoDataValue>>),
      SceneT15(<<0, 0, 2>>, <<100, 500, 700>>),
      SceneT15(<<0, 0, 0>>, <<100, 12000, 0>>),
      SceneT15(<<0, 8, 0>>, <<100, 300, -3>>),
      SceneT16(<<0, 0>>, <<700, 100>>, <<900, 100>>),
      SceneT16(<<64, 0>>, <<NoDataValue, 100>>, <<NoDataValue, 100>>) }

BeginningDateTimes ==
    { "2024-06-28T16:39:01.000Z", "2024-07-14T16:39:05.000Z",
      "2024-07-30T16:39:12.000Z" }

SceneGranule(g, when, scene) ==
    [umm |-> [GranuleUR |-> scene.umm_tile, TemporalExtent |-> when,
              SpatialExtent |-> FootprintA],
     files |-> [i \in DOMAIN scene.files |->
                   FileRef(g, i, scene.files[i].name, scene.files[i].data)]]

RECURSIVE ScenesUpTo(_)
\* the search results of up to n granules, each of any date and any scene
ScenesUpTo(n) ==
    IF n = 0 THEN { <<>> }
    ELSE LET shorter == ScenesUpTo(n - 1) IN
         shorter \cup
            { Append(found, SceneGranule(n, when, scene)) :
                found \in { r \in shorter : Len(r) = n - 1 },
                when \in BeginningDateTimes, scene \in SceneChoices }

\* a granule of tile T16RBT without Fmask
SceneNoFmask ==
    [umm_tile |-> "T16RBT",
     files |-> << [name |-> GrammarName(C_HLSL30, C_T16RBT, C_TS1, C_V20, C_B04),
                   data |-> FileRaster(2, <<700, 100>>, NoDataValue)],
                  [name |-> GrammarName(C_HLSL30, C_T16RBT, C_TS1, C_V20, C_B05),
                   data |-> FileRaster(2, <<900, 100>>, NoDataValue)] >>]

\* a granule of tile T15RYN that lists band 5 before the Fmask and band 4
SceneReordered ==
    [umm_tile |-> "T15RYN",
     files |-> << [name |-> GrammarName(C_HLSL30, C_T15RYN, C_TS1, C_V20, C_B05),
                   data |-> FileRaster(0, <<100, 400, 600>>, NoDataValue)],
                  [name |-> GrammarName(C_HLSL30, C_T15RYN, C_TS1, C_V20, C_FMASK),
                   data |-> FileRaster(0, <<0, 0, 4>>, 255)],
                  [name |-> GrammarName(C_HLSL30, C_T15RYN, C_TS1, C_V20, C_B04),
                   data |-> FileRaster(0, <<100, 300, 500>>, NoDataValue)] >>]

\* a granule of tile T15RYN with the narrow near-infrared band B8A
SceneB8A ==
    [umm_tile |-> "T15RYN",
     files |-> << [name |-> GrammarName(C_HLSS30, C_T15RYN, C_TS1, C_V20, C_FMASK),
                   data |-> FileRaster(0, <<0, 0, 0>>, 255)],
                  [name |-> GrammarName(C_HLSS30, C_T15RYN, C_TS1, C_V20, C_B8A),
                   data |-> FileRaster(0, <<100, 300, 500>>, NoDataValue)] >>]

\* granules that are not one Fmask with the bands in ascending order
OddScenes == { SceneNoFmask, SceneReordered, SceneB8A }

RECURSIVE OddScenesUpTo(_)
\* the search results of up to n granules, each of any date and any scene,
\* the odd ones included
OddScenesUpTo(n) ==
    IF n = 0 THEN { <<>> }
    ELSE LET shorter == OddScenesUpTo(n - 1) IN
         shorter \cup
            { Append(found, SceneGranule(n, when, scene)) :
                found \in { r \in shorter : Len(r) = n - 1 },
                when \in BeginningDateTimes, scene \in SceneChoices \cup OddScenes }


(***************************************************************************)
(* Specifications                                                          *)
(***************************************************************************)
\* calls of cached functions, in any order and with any outcome
Call ==
    /\ \E c \in CallSites, override \in BOOLEAN :
            compute_and_cache(ComputeOutcomes, c[1], override, c[2])
    /\ UNCHANGED <<linkVars, maskVars, compositeVars, runVars>>

\* no Fmask raster is at hand
MaskIdle ==
    /\ fmask_da = Raster(<<0, 0>>, <<>>)
    /\ mask_bits = DefaultMaskBits
    /\ cloud_mask = NoMask

\* the compositing stages have not run
CompositeIdle ==
    /\ reflectance_da_df = NoBandTable
    /\ reflectance_da = NoComposite
    /\ opened = <<>>

\* the notebook is not run as a whole
NoPipeline ==
    [run |-> 0, next |-> 0, status |-> "idle", executed |-> {},
     stored_before |-> {}, after_abort |-> FALSE]

\* no process calls a cached function
NoProcs == <<>>

RunIdle ==
    /\ pipeline = NoPipeline
    /\ procs = NoProcs

Init ==
    /\ CacheInit
    /\ results = <<>>
    /\ file_df = NoTable
    /\ MaskIdle
    /\ CompositeIdle
    /\ RunIdle

Next == Call

Spec == Init /\ [][Next]_vars

\* get_earthaccess_links applied to the search results
GetLinks ==
    /\ file_df.state = "none"
    /\ file_df' = get_earthaccess_links(results)
    /\ UNCHANGED <<results, cacheVars, maskVars, compositeVars, runVars>>

InitLinks ==
    /\ CacheInit
    /\ results \in SearchResults
    /\ file_df = NoTable
    /\ MaskIdle
    /\ CompositeIdle
    /\ RunIdle

NextLinks == GetLinks

SpecLinks == InitLinks /\ [][NextLinks]_vars

\* compute_quality_mask applied to an Fmask raster
ComputeMask ==
    /\ cloud_mask.state = "none"
    /\ cloud_mask' = [state |-> "ok", mask |-> compute_quality_mask(fmask_da, mask_bits)]
    /\ UNCHANGED <<fmask_da, mask_bits, cacheVars, linkVars, compositeVars, runVars>>

InitMask ==
    /\ CacheInit
    /\ results = <<>>
    /\ file_df = NoTable
    /\ \/ fmask_da \in MaskRasters /\ mask_bits \in MaskBitLists
       \/ fmask_da \in MaskGrids /\ mask_bits \in {DefaultMaskBits, <<>>, <<0, 7>>}
    /\ cloud_mask = NoMask
    /\ CompositeIdle
    /\ RunIdle

NextMask == ComputeMask

SpecMask == InitMask /\ [][NextMask]_vars

\* compute_reflectance_da applied to the search results
ComputeReflectance ==
    /\ reflectance_da_df.state = "none"
    /\ reflectance_da_df' = compute_reflectance_da(results)
    /\ opened' = OpenCallsOf(results)
    /\ UNCHANGED <<reflectance_da, cacheVars, linkVars, maskVars, pipeline, procs>>

\* merge_and_composite_arrays applied to the table of compute_reflectance_da
MergeAndComposite ==
    /\ reflectance_da_df.state = "ok"
    /\ reflectance_da.state = "none"
    /\ \E fill \in MergeFills :
          reflectance_da' = merge_and_composite_arrays(reflectance_da_df.rows, fill)
    /\ UNCHANGED <<reflectance_da_df, cacheVars, linkVars, maskVars, runVars>>

InitComposite ==
    /\ CacheInit
    /\ results \in ScenesUpTo(MaxScenes) \cup OddScenesUpTo(MaxGranules)
    /\ file_df = NoTable
    /\ MaskIdle
    /\ CompositeIdle
    /\ RunIdle

NextComposite == ComputeReflectance \/ MergeAndComposite

SpecComposite == InitComposite /\ [][NextComposite]_vars

(***************************************************************************)
(* The notebook run as a whole: the three cached stages in order           *)
(***************************************************************************)
\* cached(func_key, override=True): the override of a decorator that names none
DefaultOverride == TRUE

\* the decorated stages and the keyword arguments they are called with
Stages ==
    << [func_key |-> "wbd_08", kwargs |-> Kw("cache_key", "hu12")],
       [func_key |-> "delta_reflectance_da_df", kwargs |-> NoKwargs],
       [func_key |-> "delta_reflectance_da", kwargs |-> NoKwargs] >>

StagePath(n) == CachePath(EffectiveKey(Stages[n].func_key, Stages[n].kwargs))

\* read_wbd_file: the download and the read give the boundaries, or fail
ReadWbdOutcomes == { [kind |-> "ok", value |-> 1], [kind |-> "raise", value |-> 0] }

\* what a stage computation does: it returns its result, or raises
AsOutcome(result) ==
    IF result.state = "ok" THEN [kind |-> "ok", value |-> result]
    ELSE [kind |-> "raise", value |-> 0]

\* the call of stage n; an exception ends the run
StageCall(n, outcomes) ==
    /\ pipeline.status = "running"
    /\ pipeline.next = n
    /\ compute_and_cache(outcomes, Stages[n].func_key, DefaultOverride, Stages[n].kwargs)
    /\ pipeline' =
          [pipeline EXCEPT
             !.next = IF last'.outcome = "return" THEN n + 1 ELSE n,
             !.status = IF last'.outcome # "return" THEN "aborted"
                        ELSE IF n = Len(Stages) THEN "done" ELSE "running",
             !.executed = IF last'.executed = 1 THEN @ \cup {n} ELSE @]

\* wbd_gdf = read_wbd_file("WBD_08_HU2_Shape", huc_level, cache_key='hu12')
RunReadWbd ==
    /\ StageCall(1, ReadWbdOutcomes)
    /\ UNCHANGED <<linkVars, maskVars, compositeVars, opened, procs>>

\* reflectance_da_df = compute_reflectance_da(results, delta_gdf)
RunComputeReflectance ==
    /\ StageCall(2, { AsOutcome(compute_reflectance_da(results)) })
    /\ reflectance_da_df' =
          IF last'.outcome = "return" THEN last'.value ELSE reflectance_da_df
    /\ opened' = IF last'.executed = 1 THEN OpenCallsOf(results) ELSE opened
    /\ UNCHANGED <<reflectance_da, linkVars, maskVars, procs>>

\* reflectance_da = merge_and_composite_arrays(reflectance_da_df)
RunMergeAndComposite ==
    /\ \E fill \in MergeFills :
          StageCall(3, { AsOutcome(merge_and_composite_arrays(
                                      reflectance_da_df.rows, fill)) })
    /\ reflectance_da' =
          IF last'.outcome = "return" THEN last'.value ELSE reflectance_da
    /\ UNCHANGED <<reflectance_da_df, opened, linkVars, maskVars, procs>>

\* the stages whose result is stored
StoredStages ==
    { n \in DOMAIN Stages :
        store[StagePath(n)].exists /\ Loads(store[StagePath(n)].bytes).ok }

\* the notebook is run again from the top, after a run that ended or aborted
Rerun ==
    /\ pipeline.status \in {"aborted", "done"}
    /\ pipeline.run < MaxRuns
    /\ pipeline' = [run |-> pipeline.run + 1, next |-> 1, status |-> "running",
                    executed |-> {}, stored_before |-> StoredStages,
                    after_abort |-> pipeline.status = "aborted"]
    /\ reflectance_da_df' = NoBandTable
    /\ reflectance_da' = NoComposite
    /\ opened' = <<>>
    /\ UNCHANGED <<cacheVars, linkVars, maskVars, procs>>

\* a few granules for the notebook: with Fmask, without, and with band B8A
PipelineScenes ==
    { SceneT15(<<0, 0, 2>>, <<100, 500, 700>>), SceneNoFmask, SceneB8A }

PipelineDateTimes == { "2024-06-28T16:39:01.000Z", "2024-07-14T16:39:05.000Z" }

RECURSIVE PipelineResultsUpTo(_)
\* the search results of up to n granules the notebook is run on
PipelineResultsUpTo(n) ==
    IF n = 0 THEN { <<>> }
    ELSE LET shorter == PipelineResultsUpTo(n - 1) IN
         shorter \cup
            { Append(found, SceneGranule(n, when, scene)) :
                found \in { r \in shorter : Len(r) = n - 1 },
                when \in PipelineDateTimes, scene \in PipelineScenes }

InitPipeline ==
    /\ CacheInit
    /\ results \in PipelineResultsUpTo(MaxGranules)
    /\ file_df = NoTable
    /\ MaskIdle
    /\ CompositeIdle
    /\ pipeline = [NoPipeline EXCEPT !.run = 1, !.next = 1, !.status = "running"]
    /\ procs = NoProcs

NextPipeline == RunReadWbd \/ RunComputeReflectance \/ RunMergeAndComposite \/ Rerun

SpecPipeline == InitPipeline /\ [][NextPipeline]_vars

(***************************************************************************)
(* Two processes that call a cached function with the same key: the steps  *)
(* of compute_and_cache, one statement at a time                           *)
(***************************************************************************)
Procs == {1, 2}

\* the call both processes make, and its pickle file
SharedCall == Stages[1]
SharedPath == CachePath(EffectiveKey(SharedCall.func_key, SharedCall.kwargs))

\* a process before its call: override is the argument of its decorator
ProcStart(override) ==
    [pc |-> "check", override |-> override, result |-> NoRecent, offset |-> 0,
     outcome |-> "none", value |-> 0, saw |-> <<>>, during_write |-> FALSE]

\* an open for writing that leaves the content in place until it is overwritten
OpenForWrite_KeepsContent(file) == File(file.bytes)

\* open(path, 'wb'): the file is created, or truncated to no bytes
OpenForWrite(file) == File(<<>>)

\* a write of one item at the offset of the writer's handle; the bytes between
\* the end of the file and the offset read as zeros
WriteAt(bytes, offset, item) ==
    [k \in 1..(IF Len(bytes) > offset THEN Len(bytes) ELSE offset + 1) |->
        IF k = offset + 1 THEN item
        ELSE IF k <= Len(bytes) THEN bytes[k] ELSE "NUL"]

\* os.path.exists(path) and override decide the branch
ProcCheck(p) ==
    /\ procs[p].pc = "check"
    /\ procs' = [procs EXCEPT ![p].pc =
                    IF MustCompute(store[SharedPath].exists, procs[p].override)
                    THEN "compute" ELSE "load"]
    /\ UNCHANGED <<cacheVars, linkVars, maskVars, compositeVars, opened, pipeline>>

\* os.makedirs and compute_function(*args, **kwargs)
ProcCompute(p) ==
    /\ procs[p].pc = "compute"
    /\ jars_dir' = TRUE
    /\ \E out \in ComputeOutcomes :
          procs' = [procs EXCEPT ![p].result = out,
                                 ![p].pc = IF out.kind = "raise" THEN "done" ELSE "open",
                                 ![p].outcome = IF out.kind = "raise" THEN "raise" ELSE @]
    /\ UNCHANGED <<store, recent, last, linkVars, maskVars, compositeVars, opened,
                   pipeline>>

\* with open(path, 'wb') as file
ProcOpen(p) ==
    /\ procs[p].pc = "open"
    /\ store' = [store EXCEPT ![SharedPath] = OpenForWrite(@)]
    /\ procs' = [procs EXCEPT ![p].pc = "dump", ![p].offset = 0]
    /\ UNCHANGED <<jars_dir, recent, last, linkVars, maskVars, compositeVars, opened,
                   pipeline>>

\* pickle.dump(result, file): the stream reaches the file one piece at a time;
\* a result that cannot be pickled ends the dump with an exception
ProcDump(p) ==
    /\ procs[p].pc = "dump"
    /\ IF procs[p].result.kind = "unpicklable"
       THEN /\ \E part \in PartialDumps :
                  store' = [store EXCEPT ![SharedPath] =
                              IF part = <<>> THEN @
                              ELSE File(WriteAt(@.bytes, 0, part[1]))]
            /\ procs' = [procs EXCEPT ![p].pc = "done", ![p].outcome = "raise"]
       ELSE LET stream == Dumps(procs[p].result.value)
                offset == procs[p].offset
            IN  /\ store' = [store EXCEPT ![SharedPath] =
                               File(WriteAt(@.bytes, offset, stream[offset + 1]))]
                /\ procs' = [procs EXCEPT
                      ![p].offset = offset + 1,
                      ![p].pc = IF offset + 1 = Len(stream) THEN "done" ELSE "dump",
                      ![p].outcome = IF offset + 1 = Len(stream) THEN "return" ELSE @,
                      ![p].value = IF offset + 1 = Len(stream)
                                   THEN procs[p].result.value ELSE @]
    /\ UNCHANGED <<jars_dir, recent, last, linkVars, maskVars, compositeVars, opened,
                   pipeline>>

\* with open(path, 'rb') as file: result = pickle.load(file)
ProcLoad(p) ==
    /\ procs[p].pc = "load"
    /\ LET loaded == Loads(store[SharedPath].bytes) IN
       procs' = [procs EXCEPT
          ![p].pc = "done",
          ![p].saw = store[SharedPath].bytes,
          ![p].during_write = \E q \in Procs \ {p} : procs[q].pc = "dump",
          ![p].outcome = IF loaded.ok THEN "return" ELSE "raise",
          ![p].value = loaded.value]
    /\ UNCHANGED <<cacheVars, linkVars, maskVars, compositeVars, opened, pipeline>>

InitConcurrent ==
    /\ store \in { [q \in Paths |-> IF q = SharedPath THEN file ELSE NoFile] :
                      file \in {NoFile} \cup { File(Dumps(r)) : r \in Results } }
    /\ jars_dir = store[SharedPath].exists
    /\ recent = [q \in Paths |-> NoRecent]
    /\ last = NoCall
    /\ results = <<>>
    /\ file_df = NoTable
    /\ MaskIdle
    /\ CompositeIdle
    /\ pipeline = NoPipeline
    /\ procs \in [Procs -> { ProcStart(override) : override \in BOOLEAN }]

NextConcurrent ==
    \E p \in Procs :
        ProcCheck(p) \/ ProcCompute(p) \/ ProcOpen(p) \/ ProcDump(p) \/ ProcLoad(p)

SpecConcurrent == InitConcurrent /\ [][NextConcurrent]_vars

(***************************************************************************)
(* Properties of the Result-Cache                                          *)
(***************************************************************************)
\* C1: a call with override false that finds a blob under its key does not
\* run the wrapped computation, and returns the decoded blob, whatever the
\* arguments of the call.
CacheHitSkipsCompute ==
    (last.called /\ ~last.override /\ last.pre.exists)
        => /\ last.executed = 0
           /\ Loads(last.pre.bytes).ok
                => /\ last.outcome = "return"
                   /\ last.value = Loads(last.pre.bytes).value

\* C1 witness: a call with a cache_key and override false returned a stored blob
CacheHitWitness ==
    /\ last.called /\ ~last.override /\ last.pre.exists
    /\ "cache_key" \in DOMAIN last.kwargs
    /\ last.executed = 0 /\ last.outcome = "return" /\ last.value = 2

\* C2: a call with override true, or with no blob under its key, runs the
\* computation exactly once, stores its result under the key of the call,
\* replacing the earlier blob and the blob of no other key, and returns it.
CacheMissComputesAndStores ==
    /\ [](  (last.called /\ (last.override \/ ~last.pre.exists))
            => /\ last.executed = 1
               /\ last.computed.kind = "ok"
                    => /\ store[last.path].exists
                       /\ Loads(store[last.path].bytes).ok
                       /\ Loads(store[last.path].bytes).value = last.computed.value
                       /\ last.outcome = "return"
                       /\ last.value = last.computed.value )
    /\ [][ \A q \in Paths : q # last'.path => store'[q] = store[q] ]_vars

\* C2 witness: a call with override true replaced a blob by a different result
CacheReplaceWitness ==
    /\ last.called /\ last.override /\ last.pre.exists
    /\ Loads(last.pre.bytes).ok /\ Loads(last.pre.bytes).value = 1
    /\ last.executed = 1 /\ last.outcome = "return" /\ last.value = 2
    /\ \E q \in Paths : q # last.path /\ store[q].exists

\* C3: once a picklable result R has been cached under a key, a call with
\* override false under that key returns R, the result of the latest computation
\* run under the key; and a call with override true runs the computation again.
CacheRoundTrip ==
    /\ (last.called /\ ~last.override /\ last.pre.exists
            /\ recent[last.path].kind = "ok")
        => /\ last.outcome = "return"
           /\ last.value = recent[last.path].value
    /\ (last.called /\ last.override) => last.executed = 1

\* C3 witness: the second of two results cached under a key is retrieved
CacheRoundTripWitness ==
    /\ last.called /\ ~last.override /\ last.pre.exists
    /\ recent[last.path] = [kind |-> "ok", value |-> 2]
    /\ last.outcome = "return" /\ last.value = 2

\* the key the claim names for a call
ClaimedPath(func_key, kwargs) ==
    "~/earth-analytics/data/jars/"
        \o (IF "cache_key" \in DOMAIN kwargs
            THEN func_key \o "_" \o kwargs["cache_key"]
            ELSE func_key)
        \o ".pickle"

\* C4: the key of a call is func_key when the call has no cache_key and
\* func_key, "_" and the cache_key otherwise, and the blob the call reads or
\* writes is the one stored under that key.
CacheKeyOfCall ==
    [][ last'.called =>
          LET P == ClaimedPath(last'.func_key, last'.kwargs) IN
          /\ P \in Paths
          /\ \A q \in Paths \ {P} : store'[q] = store[q]
          /\ (last'.executed = 1 /\ last'.computed.kind = "ok")
                => store'[P] = File(<<"PROTO", last'.computed.value, "STOP">>)
          /\ (last'.executed = 0 /\ last'.outcome = "return")
                => /\ store[P].exists
                   /\ last'.value = store[P].bytes[2] ]_vars

\* C4 witness: a call with a cache_key read the blob that a call of another
\* function, without cache_key, had stored under the same key
CacheKeyWitness ==
    /\ last.called /\ last.func_key = "delta_reflectance_da"
    /\ "cache_key" \in DOMAIN last.kwargs
    /\ last.executed = 0 /\ last.outcome = "return"
    /\ store[ClaimedPath("delta_reflectance_da_df", NoKwargs)].exists
    /\ ~store[ClaimedPath("delta_reflectance_da", NoKwargs)].exists

\* the latest call had override false and found a blob that does not unpickle
FoundCorruptBlob(call) ==
    call.called /\ ~call.override /\ call.pre.exists /\ ~Loads(call.pre.bytes).ok

\* C12: a call with override false that finds, under its key, a blob that does
\* not deserialize fails; it does not run the wrapped computation and it leaves
\* every stored blob as it was, so the blob stays corrupt until a call with
\* override true recomputes it.
CacheCorruptionIsFatal ==
    [][ FoundCorruptBlob(last')
          => /\ last'.outcome = "raise"
             /\ last'.executed = 0
             /\ store' = store
             /\ ~Loads(store'[last'.path].bytes).ok ]_vars

\* C12 witness: a call with override false failed on the truncated blob that an
\* unpicklable result had left under its key
CacheCorruptWitness ==
    /\ FoundCorruptBlob(last)
    /\ last.pre.bytes = <<"PROTO">>
    /\ recent[last.path].kind = "unpicklable"
    /\ last.outcome = "raise" /\ last.executed = 0
    /\ store[last.path] = last.pre

\* the wrapped computation of the latest call raised
ComputationFailed(call) ==
    call.called /\ call.executed = 1 /\ call.computed.kind = "raise"

\* C19: a call whose wrapped computation raises leaves the store as it was: no
\* blob is created, truncated or replaced under any key; a later call with
\* override false still returns the result stored before.
FailedComputeKeepsStore ==
    /\ [][ ComputationFailed(last')
              => /\ store' = store
                 /\ last'.outcome = "raise" ]_vars
    /\ []( (last.called /\ ~last.override /\ last.outcome = "return")
              => /\ recent[last.path].kind = "ok"
                 /\ last.value = recent[last.path].value )

\* C19 witness: a computation run with override true raised while a blob was
\* stored under its key, and the blob is still there and still unpickles
FailedComputeWitness ==
    /\ ComputationFailed(last) /\ last.override
    /\ last.pre.exists /\ Loads(last.pre.bytes).ok
    /\ store[last.path] = last.pre
    /\ \E q \in Paths : q # last.path /\ ~store[q].exists

(***************************************************************************)
(* Properties of the Granule-Link-Resolver                                 *)
(***************************************************************************)
\* the rows of the link table that come from granule g
RowsOf(g) == { k \in DOMAIN file_df.rows : file_df.rows[k].url.handle[1] = g }

\* row k comes from an earlier file of the search results than row l
HandleBefore(k, l) ==
    LET hk == file_df.rows[k].url.handle
        hl == file_df.rows[l].url.handle
    IN  hk[1] < hl[1] \/ (hk[1] = hl[1] /\ hk[2] < hl[2])

\* C5: a granule with N files whose names all match the grammar gives exactly
\* N rows; every row carries the datetime and the footprint of its granule; the
\* rows are in the order of the search results and indexed 0, 1, 2, ...
LinkTableComplete ==
    file_df.state = "ok" =>
        /\ \A g \in 1..Len(results) :
              (\A i \in DOMAIN results[g].files :
                    results[g].files[i].full_name \in GrammarNames)
                => Cardinality(RowsOf(g)) = Len(results[g].files)
        /\ \A k \in DOMAIN file_df.rows :
              LET row == file_df.rows[k]
                  umm == results[row.url.handle[1]].umm
              IN  /\ row.index = k - 1
                  /\ row.datetime = ToDatetime(umm["TemporalExtent"])
                  /\ Len(row.geometry) = Len(umm["SpatialExtent"])
                  /\ \A j \in DOMAIN row.geometry :
                        /\ row.geometry[j][1] = umm["SpatialExtent"][j].Longitude
                        /\ row.geometry[j][2] = umm["SpatialExtent"][j].Latitude
        /\ \A k, l \in DOMAIN file_df.rows : k < l => HandleBefore(k, l)

\* C5 witness: two granules of different dates, two matching files each, four rows
LinkTableWitness ==
    /\ file_df.state = "ok" /\ Len(results) = 2 /\ Len(file_df.rows) = 4
    /\ Cardinality(RowsOf(1)) = 2 /\ Cardinality(RowsOf(2)) = 2
    /\ file_df.rows[1].datetime # file_df.rows[3].datetime
    /\ file_df.rows[4].index = 3

\* the file has a row in the link table
FileYieldsRow(file) ==
    \E k \in DOMAIN file_df.rows : file_df.rows[k].url = file

\* the name ends in .tif
HasTifExtension(name) ==
    Len(name) >= 4 /\ SubSeq(name, Len(name) - 3, Len(name)) = Dot \o TifExt

\* C6: a file yields a row if and only if its name matches the grammar
\* <anything>.<tile_id>.<timestamp>.v<version>.<band>.tif, the row carrying the
\* tile id and the band of the name; a name without .tif extension or without
\* version segment yields no row.
GrammarDecidesRow ==
    file_df.state = "ok" =>
        \A g \in 1..Len(results) : \A i \in DOMAIN results[g].files :
            LET file == results[g].files[i] IN
            /\ FileYieldsRow(file) <=> file.full_name \in GrammarNames
            /\ ~HasTifExtension(file.full_name) => ~FileYieldsRow(file)
            /\ \A k \in DOMAIN file_df.rows :
                  file_df.rows[k].url = file
                    => \E n \in NameParts :
                          /\ file.full_name = GrammarName(n[1], n[2], n[3], n[4], n[5])
                          /\ file_df.rows[k].tile_id = n[2]
                          /\ file_df.rows[k].band = n[5]

\* the key of a row of the link table
LinkKey(row) == <<row.datetime, row.tile_id, row.band>>

\* C11: in the link table no two rows share datetime, tile id and band code,
\* whatever the search results
LinkKeysUnique ==
    file_df.state = "ok" =>
        \A k, l \in DOMAIN file_df.rows :
            k # l => LinkKey(file_df.rows[k]) # LinkKey(file_df.rows[l])

(***************************************************************************)
(* Properties of the Quality-Mask-Builder                                  *)
(***************************************************************************)
\* bit b of the 8-bit value v is set, bit 0 being the least significant
BitIsSet(v, b) == (v % Pow2(b + 1)) >= Pow2(b)

\* the mask marks pixel p usable
Usable(mask, p) == mask.values[p] # 0

\* C7: a pixel is usable if and only if every bit of its Fmask value at the
\* configured positions is zero, for every value 0..255 and every set of
\* positions; with positions 1, 2, 3 the value 10 is unusable and 1 is usable;
\* the mask has the shape of the input.
QualityMaskCorrect ==
    cloud_mask.state = "ok" =>
        /\ cloud_mask.mask.shape = fmask_da.shape
        /\ Len(cloud_mask.mask.values) = Len(fmask_da.values)
        /\ \A p \in DOMAIN fmask_da.values :
              /\ Usable(cloud_mask.mask, p)
                    <=> \A j \in DOMAIN mask_bits :
                            ~BitIsSet(fmask_da.values[p], mask_bits[j])
              /\ (mask_bits = <<1, 2, 3>> /\ fmask_da.values[p] = 10)
                    => ~Usable(cloud_mask.mask, p)
              /\ (mask_bits = <<1, 2, 3>> /\ fmask_da.values[p] = 1)
                    => Usable(cloud_mask.mask, p)

\* C7 witness: with the default positions a grid holding 10 and 1 is masked
QualityMaskWitness ==
    /\ cloud_mask.state = "ok" /\ mask_bits = DefaultMaskBits
    /\ fmask_da.shape = <<2, 2>>
    /\ fmask_da.values[1] = 10 /\ ~Usable(cloud_mask.mask, 1)
    /\ fmask_da.values[2] = 1 /\ Usable(cloud_mask.mask, 2)

(***************************************************************************)
(* Properties of the Granule-Compositor                                    *)
(***************************************************************************)
\* the link rows whose band code begins with 'B'
SpectralLinks(links) == { k \in DOMAIN links : Head(links[k].band) = "B" }

\* the Fmask rows of the (datetime, tile) group of a row
FmaskLinks(links, row) ==
    { k \in DOMAIN links : /\ links[k].band = C_FMASK
                           /\ links[k].datetime = row.datetime
                           /\ links[k].tile_id = row.tile_id }

\* the first Fmask row of the (datetime, tile) group of a row
FmaskOf(links, row) ==
    links[CHOOSE k \in FmaskLinks(links, row) :
            \A j \in FmaskLinks(links, row) : k <= j]

\* the count the file of a row holds at cell x
RawAt(row, x) == row.url.data.values[x - row.url.data.x0 + 1]

\* C15: the table of compute_reflectance_da has exactly one row for every link
\* row whose band begins with 'B' and no other row; each row carries its band
\* scaled by 0.0001, and a pixel of it is a number only if the Fmask of its own
\* (datetime, tile) group has bits 1, 2 and 3 clear at that pixel.
ReflectanceTableRows ==
    reflectance_da_df.state = "ok" =>
        LET rows == reflectance_da_df.rows
            links == get_earthaccess_links(results).rows
            spectral == SpectralLinks(links)
        IN
        /\ Len(rows) = Cardinality(spectral)
        /\ \A k \in spectral :
              Cardinality({ j \in DOMAIN rows : rows[j].index = links[k].index }) = 1
        /\ \A j \in DOMAIN rows :
              LET link == links[rows[j].index + 1]
                  fmask == FmaskOf(links, link)
              IN
              /\ rows[j].index + 1 \in spectral
              /\ rows[j].band = link.band /\ rows[j].url = link.url
              /\ rows[j].datetime = link.datetime /\ rows[j].tile_id = link.tile_id
              /\ \A p \in DOMAIN rows[j].da.values :
                    LET x == rows[j].da.x0 + p - 1
                        value == rows[j].da.values[p]
                    IN  ~value.nan
                          => /\ \A bit \in {1, 2, 3} : ~BitIsSet(RawAt(fmask, x), bit)
                             /\ value.v * ScaleDen = RawAt(link, x) * UnitsPerOne

\* C15 witness: a table of two band rows from the three files of a granule,
\* one pixel hidden by the mask of its group and the pixel next to it kept
ReflectanceTableWitness ==
    /\ reflectance_da_df.state = "ok"
    /\ Len(results) = 1 /\ Len(results[1].files) = 3
    /\ Len(reflectance_da_df.rows) = 2
    /\ \E j \in DOMAIN reflectance_da_df.rows :
          LET row == reflectance_da_df.rows[j] IN
          \E p, q \in DOMAIN row.da.values :
             /\ row.da.values[p].nan
             /\ RawAt(row, row.da.x0 + p - 1) = 600
             /\ ~row.da.values[q].nan /\ row.da.values[q].v = (4 * UnitsPerOne) \div 100

\* the open_dataarray calls of a (datetime, tile) group that reprojected the
\* boundary
Reprojections(datetime, tile_id) ==
    { k \in DOMAIN opened : /\ opened[k].datetime = datetime
                            /\ opened[k].tile_id = tile_id
                            /\ opened[k].to_crs }

\* C16: the boundary is reprojected only when it has not been reprojected yet:
\* among the open_dataarray calls of one granule, the Fmask and its bands, at
\* most one reprojects the boundary.
BoundaryReprojectedOnce ==
    \A k \in DOMAIN opened :
        Cardinality(Reprojections(opened[k].datetime, opened[k].tile_id)) <= 1

(***************************************************************************)
(* Properties of the Mosaic-Temporal-Reducer                               *)
(***************************************************************************)
\* the cells of the composite
CompositeCells ==
    IF reflectance_da.bands = <<>> THEN {}
    ELSE DOMAIN reflectance_da.bands[1].values

\* the value of cell p of the composite of band b
CompositeAt(b, p) == reflectance_da.bands[b].values[p]

\* C8: every pixel of a per-date merged raster whose value is <= 0 is missing
\* after the sweep, and the composite holds no value <= 0 at any band and cell.
NegativeValueSweep ==
    reflectance_da.state = "ok" =>
        \A b \in DOMAIN reflectance_da.bands :
            /\ \A d \in DOMAIN reflectance_da.bands[b].dates :
                  LET date == reflectance_da.bands[b].dates[d] IN
                  \A p \in DOMAIN date.merged.values :
                      (~date.merged.values[p].nan /\ date.merged.values[p].v <= 0)
                          => date.swept.values[p].nan
            /\ \A p \in CompositeCells :
                  ~CompositeAt(b, p).nan => CompositeAt(b, p).v > 0

\* C8 witness: a merged raster held a zero and a negative value, and the
\* composite holds a value
NegativeValueWitness ==
    /\ reflectance_da.state = "ok"
    /\ \E b \in DOMAIN reflectance_da.bands :
          /\ \E d \in DOMAIN reflectance_da.bands[b].dates :
                \E p \in DOMAIN reflectance_da.bands[b].dates[d].merged.values :
                    LET x == reflectance_da.bands[b].dates[d].merged.values[p]
                    IN  ~x.nan /\ x.v = 0
          /\ \E d \in DOMAIN reflectance_da.bands[b].dates :
                \E p \in DOMAIN reflectance_da.bands[b].dates[d].merged.values :
                    LET x == reflectance_da.bands[b].dates[d].merged.values[p]
                    IN  ~x.nan /\ x.v < 0
          /\ \E p \in CompositeCells : ~CompositeAt(b, p).nan

\* the values of the cell at coordinate x over the swept rasters of band b
DateValues(b, x) ==
    [d \in DOMAIN reflectance_da.bands[b].dates |->
        CellOf(reflectance_da.bands[b].dates[d].swept, x)]

\* the dates on which the cell holds a number
ValidDates(b, x) == { d \in DOMAIN DateValues(b, x) : ~DateValues(b, x)[d].nan }

\* the r-th smallest of the numbers of the cell
OrderStatistic(b, x, r) ==
    LET valid == ValidDates(b, x)
        values == DateValues(b, x)
    IN  CHOOSE v \in { values[d].v : d \in valid } :
            /\ Cardinality({ d \in valid : values[d].v < v }) < r
            /\ Cardinality({ d \in valid : values[d].v <= v }) >= r

CompositeInUnitRange ==
    reflectance_da.state = "ok" =>
        \A b \in DOMAIN reflectance_da.bands : \A p \in CompositeCells :
            ~CompositeAt(b, p).nan
                => (CompositeAt(b, p).v >= 0 /\ CompositeAt(b, p).v <= UnitsPerOne)

\* the place of the first row of the table with the given band code
FirstRowOf(code) ==
    CHOOSE k \in DOMAIN reflectance_da_df.rows :
        /\ reflectance_da_df.rows[k].band = code
        /\ \A j \in 1..(k - 1) : reflectance_da_df.rows[j].band # code

\* C18: the composite has exactly one band entry for every distinct band code
\* of the table, labelled with the number of the code, for every code that
\* begins with 'B'; the entries are in the order in which the codes are first
\* met in the table.
BandEntriesAsEncountered ==
    reflectance_da.state # "none" =>
        LET codes == { reflectance_da_df.rows[k].band : k \in DOMAIN reflectance_da_df.rows }
            bands == reflectance_da.bands
        IN  /\ reflectance_da.state = "ok"
            /\ Len(bands) = Cardinality(codes)
            /\ \A code \in codes :
                  Cardinality({ b \in DOMAIN bands : bands[b].code = code }) = 1
            /\ \A b \in DOMAIN bands :
                  bands[b].band = DecimalValue(Tail(bands[b].code))
            /\ \A a, b \in DOMAIN bands :
                  a < b => FirstRowOf(bands[a].code) < FirstRowOf(bands[b].code)

(***************************************************************************)
(* Properties of the notebook run as a whole                               *)
(***************************************************************************)
\* the (datetime, tile) groups of the link table that have no Fmask row
GroupsWithoutFmask(links) ==
    { <<links[k].datetime, links[k].tile_id>> : k \in DOMAIN links }
        \ { <<links[k].datetime, links[k].tile_id>> :
                k \in { j \in DOMAIN links : links[j].band = C_FMASK } }

\* C13: if a (datetime, tile) group of the link table has no Fmask row, the
\* call of compute_reflectance_da fails: no band of that group is opened, no
\* table is returned and the call stores no blob for the stage.
FmaskMissingFails ==
    (last.called /\ last.func_key = Stages[2].func_key)
        => LET links == get_earthaccess_links(results)
               bare == GroupsWithoutFmask(links.rows)
           IN  (links.state = "ok" /\ bare # {})
                 => /\ last.outcome = "raise"
                    /\ pipeline.next <= 2
                    /\ reflectance_da_df = NoBandTable
                    /\ store[last.path] = last.pre
                    /\ ~store[last.path].exists
                    /\ \A k \in DOMAIN opened :
                          <<opened[k].datetime, opened[k].tile_id>> \notin bare

\* C13 witness: the first group was opened with its Fmask, the second group
\* has none, and the run aborted with the boundaries stored and nothing else
FmaskMissingWitness ==
    /\ pipeline.next = 2 /\ pipeline.status = "aborted"
    /\ last.called /\ last.func_key = Stages[2].func_key /\ last.outcome = "raise"
    /\ Len(results) = 2 /\ Len(opened) >= 2
    /\ GroupsWithoutFmask(get_earthaccess_links(results).rows) # {}
    /\ store[StagePath(1)].exists /\ ~store[StagePath(2)].exists

\* C14: when a run aborted, the next run does not execute the computation of
\* a stage whose result was already stored: it resumes after the last stage
\* that was cached.
ResumeAfterFailure ==
    (pipeline.run > 1 /\ pipeline.after_abort)
        => pipeline.executed \cap pipeline.stored_before = {}

(***************************************************************************)
(* Properties of concurrent calls                                          *)
(***************************************************************************)
\* C17: with two processes on the same key and no lock, a process with
\* override false can load the blob while the other is part-way through
\* writing it; what it then reads is a truncated stream, never a complete
\* result, and its call fails.
PartialWriteIsObserved ==
    \A p \in Procs :
        (procs[p].pc = "done" /\ ~procs[p].override /\ procs[p].during_write)
            => /\ ~Loads(procs[p].saw).ok
               /\ procs[p].outcome = "raise"

\* C17 witness: a result was stored; one process is writing a new one and has
\* written the header only; the other, with override false, has read the
\* header alone and failed
PartialWriteWitness ==
    \E p, q \in Procs :
        /\ p # q
        /\ procs[p].pc = "done" /\ ~procs[p].override /\ procs[p].during_write
        /\ procs[p].saw = <<"PROTO">> /\ procs[p].outcome = "raise"
        /\ procs[q].pc = "dump" /\ procs[q].offset = 1 /\ procs[q].override

====
